---- MODULE Spec2Model ----
(***************************************************************************)
(* Model of the Microsoft Graph resource accessors of entraid-mcp-server:  *)
(* resources/applications.py, resources/audit_logs.py and                  *)
(* resources/signin_logs.py.                                               *)
(*                                                                         *)
(* One public coroutine runs at a time (the operations share no state).    *)
(* Every await of a remote call is one step: the transport either answers  *)
(* with the page the remote collection holds at the requested place, or    *)
(* answers with no object, or raises.                                      *)
(***************************************************************************)
EXTENDS Integers, Sequences, FiniteSets, TLC

VARIABLES op, pc, args, server, locals, requests, result

vars == <<op, pc, args, server, locals, requests, result>>

(***************************************************************************)
(* Bounds of the model.                                                    *)
(***************************************************************************)
MaxPages == 2
MaxPageLen == 2
MaxLimit == 3
MaxRequests == 4

(***************************************************************************)
(* Python values.  Every value carries its type in field t, so that None,  *)
(* strings, numbers, lists, dicts and SDK objects can be told apart.       *)
(***************************************************************************)
None == [t |-> "None"]
Str(s) == [t |-> "str", v |-> s]
PyInt(n) == [t |-> "int", v |-> n]
Float(n) == [t |-> "float", v |-> n]
Bool(b) == [t |-> "bool", v |-> b]
List(l) == [t |-> "list", v |-> l]
Dict(d) == [t |-> "dict", v |-> d]
Uuid(s) == [t |-> "uuid", v |-> s]
Enum(c, n) == [t |-> "enum", c |-> c, v |-> n]
DateTime(y, mo, d, h, mi, s) ==
    [t |-> "datetime", v |-> [year |-> y, month |-> mo, day |-> d,
                              hour |-> h, minute |-> mi, second |-> s]]
Cursor(i) == [t |-> "str", v |-> "https://graph/nextLink/" \o ToString(i), page |-> i]

\* bool(x) of Python: None, '', 0, False, [] and {} are false, objects are true.
Truthy(x) ==
    CASE x.t = "None" -> FALSE
      [] x.t = "str" -> x.v # ""
      [] x.t = "int" -> x.v # 0
      [] x.t = "float" -> x.v # 0
      [] x.t = "bool" -> x.v
      [] x.t = "list" -> x.v # <<>>
      [] x.t = "dict" -> DOMAIN x.v # {}
      [] OTHER -> TRUE

\* getattr(obj, name, default)
GetAttr(obj, name, default) == IF name \in DOMAIN obj THEN obj[name] ELSE default

\* x or y
Or(x, y) == IF Truthy(x) THEN x ELSE y

\* str(x)
PyStr(x) ==
    CASE x.t = "str" -> x
      [] x.t = "None" -> Str("None")
      [] x.t = "int" -> Str(ToString(x.v))
      [] x.t = "enum" -> Str(x.c \o "." \o x.v)
      [] OTHER -> Str(x.v)

Pad2(n) == IF n < 10 THEN "0" \o ToString(n) ELSE ToString(n)

\* datetime.isoformat() of a timezone-aware UTC datetime without microseconds
IsoFormat(dt) ==
    Str(ToString(dt.v.year) \o "-" \o Pad2(dt.v.month) \o "-" \o Pad2(dt.v.day)
        \o "T" \o Pad2(dt.v.hour) \o ":" \o Pad2(dt.v.minute) \o ":"
        \o Pad2(dt.v.second) \o "+00:00")

\* days from 1970-01-01 to a date of the proleptic Gregorian calendar
DaysFromCivil(y, m, d) ==
    LET yy == IF m <= 2 THEN y - 1 ELSE y
        era == yy \div 400
        yoe == yy - era * 400
        doy == (153 * (IF m > 2 THEN m - 3 ELSE m + 9) + 2) \div 5 + d - 1
        doe == yoe * 365 + yoe \div 4 - yoe \div 100 + doy
    IN era * 146097 + doe - 719468

\* the date that many days after 1970-01-01
CivilFromDays(z) ==
    LET zz == z + 719468
        era == zz \div 146097
        doe == zz - era * 146097
        yoe == (doe - doe \div 1460 + doe \div 36524 - doe \div 146096) \div 365
        doy == doe - (365 * yoe + yoe \div 4 - yoe \div 100)
        mp == (5 * doy + 2) \div 153
        d == doy - (153 * mp + 2) \div 5 + 1
        m == IF mp < 10 THEN mp + 3 ELSE mp - 9
        y == yoe + era * 400 + (IF m <= 2 THEN 1 ELSE 0)
    IN [year |-> y, month |-> m, day |-> d]

\* dt - timedelta(days=days)
MinusDays(dt, days) ==
    LET date == CivilFromDays(DaysFromCivil(dt.v.year, dt.v.month, dt.v.day) - days)
    IN [dt EXCEPT !.v.year = date.year, !.v.month = date.month, !.v.day = date.day]

\* dt.strftime('%Y-%m-%dT%H:%M:%SZ')
StrFTime(dt) ==
    ToString(dt.v.year) \o "-" \o Pad2(dt.v.month) \o "-" \o Pad2(dt.v.day)
        \o "T" \o Pad2(dt.v.hour) \o ":" \o Pad2(dt.v.minute) \o ":"
        \o Pad2(dt.v.second) \o "Z"

\* the values datetime.now(timezone.utc) takes
Clock == {DateTime(2024, 1, 8, 0, 0, 0), DateTime(2024, 3, 1, 10, 20, 30)}

\* variant: the slice is forgotten and the whole list is formatted
SliceTo_NoTruncation(seq, n) == seq

\* seq[:n] of Python, negative n included
SliceTo(seq, n) ==
    IF n >= 0
    THEN SubSeq(seq, 1, IF n < Len(seq) THEN n ELSE Len(seq))
    ELSE SubSeq(seq, 1, IF Len(seq) + n > 0 THEN Len(seq) + n ELSE 0)

\* d[k] = v
DictSet(d, k, v) == Dict((k :> v) @@ d.v)

(***************************************************************************)
(* Application objects and their records                                   *)
(***************************************************************************)
\* the k-th application object of the tenant; the optional attributes are
\* populated, absent (None) or empty depending on k
Application(k) ==
    LET r == k % 3 IN
    [t |-> "obj",
     id |-> Str("app-" \o ToString(k)),
     app_id |-> IF r = 1 THEN Str("client-" \o ToString(k)) ELSE None,
     display_name |-> IF r = 1 THEN Str("App " \o ToString(k))
                      ELSE IF r = 2 THEN None ELSE Str(""),
     created_date_time |-> IF r = 1 THEN DateTime(2024, 1, 8, 9, 5, 0) ELSE None,
     sign_in_audience |-> IF r = 1 THEN Str("AzureADMyOrg") ELSE None,
     publisher_domain |-> IF r = 1 THEN Str("contoso.com")
                          ELSE IF r = 2 THEN None ELSE Str(""),
     tags |-> IF r = 1 THEN List(<<Str("prod")>>)
              ELSE IF r = 2 THEN None ELSE List(<<>>)]

\* the dictionary built for one application object
FormatApplication(app) ==
    Dict([id |-> Or(GetAttr(app, "id", Str("")), Str("")),
          appId |-> Or(GetAttr(app, "app_id", Str("")), Str("")),
          displayName |-> Or(GetAttr(app, "display_name", Str("")), Str("")),
          createdDateTime |-> IF Truthy(GetAttr(app, "created_date_time", None))
                              THEN IsoFormat(app.created_date_time) ELSE Str(""),
          signInAudience |-> Or(GetAttr(app, "sign_in_audience", Str("")), Str("")),
          publisherDomain |-> Or(GetAttr(app, "publisher_domain", Str("")), Str("")),
          tags |-> Or(GetAttr(app, "tags", List(<<>>)), List(<<>>))])

(***************************************************************************)
(* Service principals: role assignments and permission grants              *)
(***************************************************************************)
AppIds == 1..2
SpIds == {Str("sp-1")}

\* the k-th role assignment of the service principal
AppRoleAssignment(k) ==
    LET full == k % 2 = 1 IN
    [t |-> "obj",
     id |-> Str("assignment-" \o ToString(k)),
     created_date_time |-> IF full THEN DateTime(2023, 12, 31, 0, 0, 0) ELSE None,
     app_role_id |-> IF full THEN Uuid("role-" \o ToString(k)) ELSE None,
     principal_display_name |-> IF full THEN Str("Principal") ELSE None,
     principal_id |-> IF full THEN Uuid("principal-" \o ToString(k)) ELSE None,
     principal_type |-> IF full THEN Str("User") ELSE Str(""),
     resource_display_name |-> IF full THEN Str("Resource") ELSE None,
     resource_id |-> IF full THEN Uuid("resource-1") ELSE None]

\* the k-th delegated permission grant of the service principal
PermissionGrant(k) ==
    LET full == k % 2 = 1 IN
    [t |-> "obj",
     id |-> Str("grant-" \o ToString(k)),
     client_id |-> IF full THEN Str("sp-1") ELSE None,
     consent_type |-> IF full THEN Str("AllPrincipals") ELSE None,
     principal_id |-> IF full THEN Str("") ELSE None,
     resource_id |-> IF full THEN Str("resource-1") ELSE None,
     scope |-> IF full THEN Str("User.Read") ELSE None]

FormatAppRoleAssignment(assignment) ==
    Dict([id |-> Or(GetAttr(assignment, "id", Str("")), Str("")),
          createdDateTime |-> IF Truthy(GetAttr(assignment, "created_date_time", None))
                              THEN IsoFormat(assignment.created_date_time) ELSE Str(""),
          appRoleId |-> IF Truthy(GetAttr(assignment, "app_role_id", None))
                        THEN PyStr(assignment.app_role_id) ELSE Str(""),
          principalDisplayName |-> Or(GetAttr(assignment, "principal_display_name", Str("")), Str("")),
          principalId |-> IF Truthy(GetAttr(assignment, "principal_id", None))
                          THEN PyStr(assignment.principal_id) ELSE Str(""),
          principalType |-> Or(GetAttr(assignment, "principal_type", Str("")), Str("")),
          resourceDisplayName |-> Or(GetAttr(assignment, "resource_display_name", Str("")), Str("")),
          resourceId |-> IF Truthy(GetAttr(assignment, "resource_id", None))
                         THEN PyStr(assignment.resource_id) ELSE Str("")])

FormatPermissionGrant(grant) ==
    Dict([id |-> Or(GetAttr(grant, "id", Str("")), Str("")),
          clientId |-> Or(GetAttr(grant, "client_id", Str("")), Str("")),
          consentType |-> Or(GetAttr(grant, "consent_type", Str("")), Str("")),
          principalId |-> Or(GetAttr(grant, "principal_id", Str("")), Str("")),
          resourceId |-> Or(GetAttr(grant, "resource_id", Str("")), Str("")),
          scope |-> Or(GetAttr(grant, "scope", Str("")), Str(""))])

(***************************************************************************)
(* Directory audits and their records                                      *)
(***************************************************************************)
AuditTop == 1000
UserIds == {"u1"}
AuditDays == {30, 1}

\* the k-th directory audit of the filtered collection
DirectoryAudit(k) ==
    LET r == k % 3 IN
    [t |-> "obj",
     id |-> Str("audit-" \o ToString(k)),
     activity_date_time |-> IF r = 1 THEN DateTime(2024, 1, 7, 23, 59, 10) ELSE None,
     activity_display_name |-> IF r = 1 THEN Str("Update user") ELSE None,
     category |-> IF r = 1 THEN Str("UserManagement") ELSE None,
     operation_type |-> IF r = 1 THEN Str("Update") ELSE None,
     result |-> IF r = 1 THEN Enum("OperationResult", "Success") ELSE None,
     result_reason |-> IF r = 1 THEN Str("ok") ELSE IF r = 2 THEN Str("") ELSE None,
     logged_by_service |-> IF r = 1 THEN Str("Core Directory") ELSE None,
     correlation_id |-> IF r = 1 THEN Str("corr-" \o ToString(k)) ELSE None,
     additional_details |->
        IF r = 1 THEN List(<<[t |-> "obj", key |-> Str("User-Agent"), value |-> None]>>)
        ELSE IF r = 2 THEN List(<<>>) ELSE None,
     initiated_by |->
        IF r = 1 THEN [t |-> "obj",
                       user |-> [t |-> "obj", id |-> Str("u1"), display_name |-> None,
                                 user_principal_name |-> Str("u1@contoso.com")],
                       app |-> None]
        ELSE IF r = 2 THEN [t |-> "obj",
                            user |-> None,
                            app |-> [t |-> "obj", app_id |-> Str("client-1"),
                                     display_name |-> None]]
        ELSE None,
     target_resources |->
        IF r = 1 THEN List(<<[t |-> "obj", id |-> Str("t1"), display_name |-> None,
                              type |-> Str("User"), user_principal_name |-> None,
                              modified_properties |->
                                List(<<[t |-> "obj", display_name |-> Str("City"),
                                        old_value |-> None, new_value |-> Str("Oslo")]>>)]>>)
        ELSE IF r = 2 THEN List(<<[t |-> "obj", id |-> None, display_name |-> Str("G"),
                                   type |-> None, user_principal_name |-> None,
                                   modified_properties |-> None]>>)
        ELSE None]

FormatKeyValue(kv) ==
    Dict([key |-> Or(GetAttr(kv, "key", Str("")), Str("")), value |-> Or(GetAttr(kv, "value", Str("")), Str(""))])

FormatModifiedProperty(mp) ==
    Dict([displayName |-> Or(GetAttr(mp, "display_name", Str("")), Str("")),
          oldValue |-> Or(GetAttr(mp, "old_value", Str("")), Str("")),
          newValue |-> Or(GetAttr(mp, "new_value", Str("")), Str(""))])

FormatTargetResource(tr) ==
    Dict([id |-> Or(GetAttr(tr, "id", Str("")), Str("")),
          displayName |-> Or(GetAttr(tr, "display_name", Str("")), Str("")),
          type |-> Or(GetAttr(tr, "type", Str("")), Str("")),
          userPrincipalName |-> Or(GetAttr(tr, "user_principal_name", Str("")), Str("")),
          modifiedProperties |->
             IF Truthy(GetAttr(tr, "modified_properties", None))
             THEN List([i \in 1..Len(tr.modified_properties.v) |->
                        FormatModifiedProperty(tr.modified_properties.v[i])])
             ELSE List(<<>>)])

FormatInitiatedBy(ib) ==
    Dict([user |-> IF Truthy(GetAttr(ib, "user", None))
                   THEN Dict([id |-> Or(GetAttr(ib.user, "id", Str("")), Str("")),
                              displayName |-> Or(GetAttr(ib.user, "display_name", Str("")), Str("")),
                              userPrincipalName |-> Or(GetAttr(ib.user, "user_principal_name", Str("")), Str(""))])
                   ELSE Dict(<<>>),
          app |-> IF Truthy(GetAttr(ib, "app", None))
                  THEN Dict([appId |-> Or(GetAttr(ib.app, "app_id", Str("")), Str("")),
                             displayName |-> Or(GetAttr(ib.app, "display_name", Str("")), Str(""))])
                  ELSE Dict(<<>>)])

\* the dictionary built for one directory audit
FormatAuditLog(log) ==
    Dict([id |-> Or(GetAttr(log, "id", Str("")), Str("")),
          activityDateTime |-> IF Truthy(GetAttr(log, "activity_date_time", None))
                               THEN IsoFormat(log.activity_date_time) ELSE Str(""),
          activityDisplayName |-> Or(GetAttr(log, "activity_display_name", Str("")), Str("")),
          category |-> Or(GetAttr(log, "category", Str("")), Str("")),
          operationType |-> Or(GetAttr(log, "operation_type", Str("")), Str("")),
          result |-> IF Truthy(GetAttr(log, "result", None)) THEN PyStr(log.result) ELSE Str(""),
          resultReason |-> Or(GetAttr(log, "result_reason", Str("")), Str("")),
          initiatedBy |-> IF Truthy(GetAttr(log, "initiated_by", None))
                          THEN FormatInitiatedBy(log.initiated_by) ELSE Dict(<<>>),
          targetResources |-> IF Truthy(GetAttr(log, "target_resources", None))
                              THEN List([i \in 1..Len(log.target_resources.v) |->
                                         FormatTargetResource(log.target_resources.v[i])])
                              ELSE List(<<>>),
          loggedByService |-> Or(GetAttr(log, "logged_by_service", Str("")), Str("")),
          correlationId |-> Or(GetAttr(log, "correlation_id", Str("")), Str("")),
          additionalDetails |-> IF Truthy(GetAttr(log, "additional_details", None))
                                THEN List([i \in 1..Len(log.additional_details.v) |->
                                           FormatKeyValue(log.additional_details.v[i])])
                                ELSE List(<<>>)])

\* the query parameters and headers sent with every audit request
AuditRequestConfiguration(user_id, days, now) ==
    [filter |-> "initiatedBy/user/id eq '" \o user_id
                \o "' and activityDateTime ge " \o StrFTime(MinusDays(now, days))
                \o " and activityDateTime le " \o StrFTime(now),
     orderby |-> <<"activityDateTime desc">>,
     top |-> AuditTop,
     headers |-> [ConsistencyLevel |-> "eventual"]]

(***************************************************************************)
(* Sign-in entries and their records                                       *)
(***************************************************************************)
SignInTop == 1000
SignInDays == {7}

\* which optional parts of a sign-in entry the server populated
SignInShapes ==
    [scalars : {"none", "full"},
     status : {"none", "bare", "full"},
     device : {"none", "bare", "full"},
     location : {"none", "bare", "nogeo", "baregeo", "full"}]

\* the k-th sign-in of the filtered collection, populated as shape says
SignIn(k, shape) ==
    LET full == shape.scalars = "full" IN
    [t |-> "obj",
     id |-> Str("signin-" \o ToString(k)),
     created_date_time |-> IF full THEN DateTime(2024, 1, 7, 8, 30, 0) ELSE None,
     user_id |-> IF full THEN Str("u1") ELSE None,
     user_display_name |-> IF full THEN Str("User One") ELSE None,
     user_principal_name |-> IF full THEN Str("u1@contoso.com") ELSE None,
     app_display_name |-> IF full THEN Str("Portal") ELSE None,
     app_id |-> IF full THEN Str("client-1") ELSE None,
     ip_address |-> IF full THEN Str("10.0.0.1") ELSE None,
     client_app_used |-> IF full THEN Str("Browser") ELSE None,
     correlation_id |-> IF full THEN Str("corr-" \o ToString(k)) ELSE None,
     is_interactive |-> IF full THEN Bool(TRUE) ELSE None,
     resource_display_name |-> IF full THEN Str("Graph") ELSE None,
     status |-> CASE shape.status = "none" -> None
                  [] shape.status = "bare" ->
                        [t |-> "obj", error_code |-> None, failure_reason |-> None,
                         additional_details |-> None]
                  [] OTHER ->
                        [t |-> "obj", error_code |-> PyInt(50126),
                         failure_reason |-> Str("Invalid credentials"),
                         additional_details |-> Str("MFA required")],
     risk_detail |-> IF full THEN Enum("RiskDetail", "None_") ELSE None,
     risk_level_aggregated |-> IF full THEN Enum("RiskLevel", "Low") ELSE None,
     risk_level_during_sign_in |-> IF full THEN Enum("RiskLevel", "Low") ELSE None,
     risk_state |-> IF full THEN Enum("RiskState", "AtRisk") ELSE None,
     risk_event_types_v2 |-> IF full THEN List(<<Str("unfamiliarFeatures")>>) ELSE None,
     device_detail |-> CASE shape.device = "none" -> None
                         [] shape.device = "bare" ->
                               [t |-> "obj", device_id |-> None, display_name |-> None,
                                operating_system |-> None, browser |-> None,
                                is_compliant |-> None, is_managed |-> None,
                                trust_type |-> None]
                         [] OTHER ->
                               [t |-> "obj", device_id |-> Str("dev-1"),
                                display_name |-> Str("Laptop"),
                                operating_system |-> Str("Windows"),
                                browser |-> Str("Edge"),
                                is_compliant |-> Bool(TRUE), is_managed |-> Bool(FALSE),
                                trust_type |-> Str("AzureAD")],
     location |-> CASE shape.location = "none" -> None
                    [] shape.location = "bare" ->
                          [t |-> "obj", city |-> None, state |-> None,
                           country_or_region |-> None, geo_coordinates |-> None]
                    [] shape.location = "nogeo" ->
                          [t |-> "obj", city |-> Str("Oslo"), state |-> Str("Oslo"),
                           country_or_region |-> Str("NO"), geo_coordinates |-> None]
                    [] shape.location = "baregeo" ->
                          [t |-> "obj", city |-> Str("Oslo"), state |-> None,
                           country_or_region |-> Str("NO"),
                           geo_coordinates |-> [t |-> "obj", latitude |-> None,
                                                longitude |-> None]]
                    [] OTHER ->
                          [t |-> "obj", city |-> Str("Oslo"), state |-> Str("Oslo"),
                           country_or_region |-> Str("NO"),
                           geo_coordinates |-> [t |-> "obj", latitude |-> Float(59),
                                                longitude |-> Float(10)]]]

FormatStatus(log) ==
    Dict([errorCode |-> IF Truthy(log.status) /\ log.status.error_code # None
                        THEN log.status.error_code ELSE PyInt(0),
          failureReason |-> IF Truthy(log.status) THEN log.status.failure_reason
                            ELSE Str(""),
          additionalDetails |-> IF Truthy(log.status) THEN log.status.additional_details
                                ELSE Str("")])

FormatRiskInformation(log) ==
    Dict([riskDetail |-> IF Truthy(log.risk_detail) THEN PyStr(log.risk_detail) ELSE Str(""),
          riskLevelAggregated |-> IF Truthy(log.risk_level_aggregated)
                                  THEN PyStr(log.risk_level_aggregated) ELSE Str(""),
          riskLevelDuringSignIn |-> IF Truthy(log.risk_level_during_sign_in)
                                    THEN PyStr(log.risk_level_during_sign_in) ELSE Str(""),
          riskState |-> IF Truthy(log.risk_state) THEN PyStr(log.risk_state) ELSE Str(""),
          riskEventTypes |-> IF Truthy(log.risk_event_types_v2)
                             THEN log.risk_event_types_v2 ELSE List(<<>>)])

FormatDeviceDetail(device) ==
    Dict([deviceId |-> Or(device.device_id, Str("")),
          displayName |-> Or(device.display_name, Str("")),
          operatingSystem |-> Or(device.operating_system, Str("")),
          browser |-> Or(device.browser, Str("")),
          isCompliant |-> IF device.is_compliant # None THEN device.is_compliant
                          ELSE Bool(FALSE),
          isManaged |-> IF device.is_managed # None THEN device.is_managed
                        ELSE Bool(FALSE),
          trustType |-> Or(device.trust_type, Str(""))])

FormatCoordinates(geo) ==
    Dict([latitude |-> IF geo.latitude # None THEN geo.latitude ELSE Float(0),
          longitude |-> IF geo.longitude # None THEN geo.longitude ELSE Float(0)])

FormatLocation(location) ==
    Dict([city |-> Or(location.city, Str("")),
          state |-> Or(location.state, Str("")),
          countryOrRegion |-> Or(location.country_or_region, Str("")),
          coordinates |-> IF Truthy(location.geo_coordinates)
                          THEN FormatCoordinates(location.geo_coordinates)
                          ELSE Dict(<<>>)])

\* the dictionary built for one sign-in entry; deviceDetail and location are
\* added only when the entry has them
FormatSignIn(log) ==
    Dict([id |-> Or(log.id, Str("")),
          createdDateTime |-> IF Truthy(log.created_date_time)
                              THEN IsoFormat(log.created_date_time) ELSE Str(""),
          userId |-> Or(log.user_id, Str("")),
          userDisplayName |-> Or(log.user_display_name, Str("")),
          userPrincipalName |-> Or(log.user_principal_name, Str("")),
          appDisplayName |-> Or(log.app_display_name, Str("")),
          appId |-> Or(log.app_id, Str("")),
          ipAddress |-> Or(log.ip_address, Str("")),
          clientAppUsed |-> Or(log.client_app_used, Str("")),
          correlationId |-> Or(log.correlation_id, Str("")),
          isInteractive |-> IF log.is_interactive # None THEN log.is_interactive
                            ELSE Bool(FALSE),
          resourceDisplayName |-> Or(log.resource_display_name, Str("")),
          status |-> FormatStatus(log),
          riskInformation |-> FormatRiskInformation(log)]
         @@ (IF Truthy(log.device_detail)
             THEN [deviceDetail |-> FormatDeviceDetail(log.device_detail)] ELSE <<>>)
         @@ (IF Truthy(log.location)
             THEN [location |-> FormatLocation(log.location)] ELSE <<>>))

\* the query parameters and headers sent with the sign-in request
SignInRequestConfiguration(user_id, days, now) ==
    [filter |-> "createdDateTime ge " \o StrFTime(MinusDays(now, days))
                \o " and createdDateTime le " \o StrFTime(now)
                \o " and userId eq '" \o user_id \o "'",
     orderby |-> <<"createdDateTime desc">>,
     top |-> SignInTop,
     headers |-> [ConsistencyLevel |-> "eventual"]]

(***************************************************************************)
(* The remote directory.  A collection is a chain of pages: page i holds   *)
(* sizes[i] entries and carries a cursor to page i+1; the last page        *)
(* carries no cursor, unless the server is endless and keeps handing out a *)
(* cursor (to the last page again).  The entries of a collection are       *)
(* numbered 1, 2, ... in server order.                                     *)
(***************************************************************************)
ChainsOf(pageLens) ==
    { [sizes |-> s, endless |-> e] :
        s \in UNION { [1..n -> pageLens] : n \in 1..MaxPages },
        e \in BOOLEAN }

\* the top-level collections
Chains == ChainsOf(0..MaxPageLen)

\* the sub-collections of a service principal: a page is empty or holds two entries
SubChains == ChainsOf({0, 2})

\* entry k of a collection; a sign-in is populated as the shape of the call says
Entity(kind, k) ==
    CASE kind = "applications" -> Application(k)
      [] kind = "app_role_assignments" -> AppRoleAssignment(k)
      [] kind = "oauth2_permission_grants" -> PermissionGrant(k)
      [] kind = "directory_audits" -> DirectoryAudit(k)
      [] kind = "sign_ins" -> SignIn(k, server.shape)

\* the record of an entry of a collection
Format(kind, item) ==
    CASE kind = "applications" -> FormatApplication(item)
      [] kind = "app_role_assignments" -> FormatAppRoleAssignment(item)
      [] kind = "oauth2_permission_grants" -> FormatPermissionGrant(item)
      [] kind = "directory_audits" -> FormatAuditLog(item)
      [] kind = "sign_ins" -> FormatSignIn(item)

\* the records of a list of entries, in the order of the list
FormatAll(kind, items) == [i \in 1..Len(items) |-> Format(kind, items[i])]

RECURSIVE Offset(_, _)
\* number of entries on the pages before page i
Offset(sizes, i) == IF i <= 1 THEN 0 ELSE Offset(sizes, i - 1) + sizes[i - 1]

\* the response object of page i: value and odata_next_link
Page(chain, kind, i) ==
    [t |-> "obj",
     value |-> List([j \in 1..chain.sizes[i] |-> Entity(kind, Offset(chain.sizes, i) + j)]),
     odata_next_link |-> IF i < Len(chain.sizes) THEN Cursor(i + 1)
                         ELSE IF chain.endless THEN Cursor(i)
                         ELSE None]

\* transport errors, and what one remote call may do
Errors == {"E1", "E2"}
Replies == {"ok", "none"} \cup Errors

\* the page a url designates: the first page for the collection url itself
Target(url) == IF url = None THEN 1 ELSE url.page

\* the value of `await ...get()` when the call does not raise
Respond(reply, chain, kind, url) ==
    IF reply = "ok" THEN Page(chain, kind, Target(url)) ELSE None

Request(verb, target, url, body, reply) ==
    [verb |-> verb, target |-> target, url |-> url, body |-> body, reply |-> reply]

\* how many requests the running operation has sent to a collection
RequestsTo(target) == Cardinality({i \in 1..Len(requests) : requests[i].target = target})

\* the three ways a coroutine stands: running, returned, raised
Running == [kind |-> "running"]
Return(v) == [kind |-> "return", value |-> v]

\* variant: the error is replaced by a new generic exception
Raise_Wrapped(e) == [kind |-> "raise", error |-> "Exception"]

\* raise: the exception in flight leaves the coroutine as it is
Raise(e) == [kind |-> "raise", error |-> e]

\* if response and response.value: items.extend(response.value)
Extend(items, response) ==
    IF Truthy(response) /\ Truthy(response.value)
    THEN items \o response.value.v
    ELSE items

(***************************************************************************)
(* list_applications                                                       *)
(***************************************************************************)
Limits == (-1)..MaxLimit

\* a caller invokes list_applications(graph_client, limit)
ListApplications_Call ==
    /\ op = "idle"
    /\ \E chain \in Chains, limit \in Limits :
         /\ server' = [applications |-> chain]
         /\ args' = [limit |-> limit]
    /\ op' = "list_applications"
    /\ pc' = "L18"
    /\ locals' = [response |-> None, applications |-> <<>>]
    /\ UNCHANGED <<requests, result>>

\* response = await client.applications.get(); the first extend
ListApplications_Get ==
    /\ op = "list_applications"
    /\ pc = "L18"
    /\ \E reply \in Replies :
         /\ requests' = Append(requests, Request("GET", "applications", None, None, reply))
         /\ IF reply \in Errors
            THEN /\ pc' = "done"
                 /\ result' = Raise(reply)
                 /\ UNCHANGED locals
            ELSE LET response == Respond(reply, server.applications, "applications", None) IN
                 /\ pc' = "L23"
                 /\ locals' = [response |-> response,
                               applications |-> Extend(locals.applications, response)]
                 /\ UNCHANGED result
    /\ UNCHANGED <<op, args, server>>

\* variant: the loop condition without the limit test
ListApplications_More_IgnoringLimit ==
    /\ locals.response # None
    /\ Truthy(locals.response.odata_next_link)

\* variant: the loop goes on while the list is not longer than limit
ListApplications_More_UpToLimit ==
    /\ locals.response # None
    /\ Truthy(locals.response.odata_next_link)
    /\ Len(locals.applications) <= args.limit

\* while response is not None and odata_next_link and len(applications) < limit
ListApplications_More ==
    /\ locals.response # None
    /\ Truthy(locals.response.odata_next_link)
    /\ Len(locals.applications) < args.limit

\* one turn of the paging loop: the follow-up request and its extend
ListApplications_NextPage ==
    /\ op = "list_applications"
    /\ pc = "L23"
    /\ ListApplications_More
    /\ RequestsTo("applications") < MaxRequests
    /\ \E reply \in Replies :
         LET url == locals.response.odata_next_link IN
         /\ requests' = Append(requests, Request("GET", "applications", url, None, reply))
         /\ IF reply \in Errors
            THEN /\ pc' = "done"
                 /\ result' = Raise(reply)
                 /\ UNCHANGED locals
            ELSE LET response == Respond(reply, server.applications, "applications", url) IN
                 /\ locals' = [response |-> response,
                               applications |-> Extend(locals.applications, response)]
                 /\ UNCHANGED <<pc, result>>
    /\ UNCHANGED <<op, args, server>>

\* the loop has ended: format applications[:limit] and return
ListApplications_Return ==
    /\ op = "list_applications"
    /\ pc = "L23"
    /\ ~ListApplications_More
    /\ pc' = "done"
    /\ result' = Return(List(FormatAll("applications",
                                 SliceTo(locals.applications, args.limit))))
    /\ UNCHANGED <<op, args, server, locals, requests>>

(***************************************************************************)
(* get_application_by_id: the application, its service principal and the   *)
(* two sub-collections of that principal                                   *)
(***************************************************************************)
\* if response.value: for item in response.value: items.append(format(item))
AppendFormatted(items, kind, response) ==
    IF Truthy(response.value) THEN items \o FormatAll(kind, response.value.v) ELSE items

\* the operations that run the body of get_application_by_id
RunsGetApplication == op \in {"get_application_by_id", "update_application"}

\* variant: the test for an absent application is missing
AppFound_Always(app) == TRUE

\* if app:
AppFound(app) == Truthy(app)

\* a caller invokes get_application_by_id(graph_client, app_id)
GetApplication_Call ==
    /\ op = "idle"
    /\ \E k \in AppIds, roles \in SubChains, grants \in SubChains, sp_id \in SpIds :
         /\ server' = [app_role_assignments |-> roles,
                       oauth2_permission_grants |-> grants,
                       sp_id |-> sp_id]
         /\ args' = [app_id |-> k]
    /\ op' = "get_application_by_id"
    /\ pc' = "G48"
    /\ locals' = <<>>
    /\ UNCHANGED <<requests, result>>

\* app = await client.applications.by_application_id(app_id).get();
\* without an object the operation returns None
GetApplication_Get ==
    /\ RunsGetApplication
    /\ pc = "G48"
    /\ \E reply \in Replies :
         /\ requests' = Append(requests,
                Request("GET", "application", None, args.app_id, reply))
         /\ IF reply \in Errors
            THEN /\ pc' = "done"
                 /\ result' = Raise(reply)
                 /\ UNCHANGED locals
            ELSE LET app == IF reply = "ok" THEN Application(args.app_id) ELSE None IN
                 IF AppFound(app)
                 THEN /\ pc' = "G60"
                      /\ locals' = [app |-> app, app_data |-> FormatApplication(app)]
                      /\ UNCHANGED result
                 ELSE /\ pc' = "done"
                      /\ result' = Return(None)
                      /\ UNCHANGED locals
    /\ UNCHANGED <<op, args, server>>

\* sp = await get_service_principal_by_app_id(graph_client, app.app_id);
\* without a service principal both lists are empty and the record is returned
GetApplication_ServicePrincipal ==
    /\ RunsGetApplication
    /\ pc = "G60"
    /\ \E reply \in Replies :
         /\ requests' = Append(requests,
                Request("CALL", "get_service_principal_by_app_id", None,
                        GetAttr(locals.app, "app_id", None), reply))
         /\ IF reply \in Errors
            THEN /\ pc' = "done"
                 /\ result' = Raise(reply)
                 /\ UNCHANGED locals
            ELSE LET sp == IF reply = "ok" THEN [t |-> "obj", id |-> server.sp_id]
                           ELSE None IN
                 IF Truthy(sp)
                 THEN /\ pc' = "G67"
                      /\ locals' = [app |-> locals.app, app_data |-> locals.app_data,
                                    sp_id |-> GetAttr(sp, "id", None), response |-> None,
                                    app_role_assignments |-> <<>>,
                                    oauth2_permission_grants |-> <<>>]
                      /\ UNCHANGED result
                 ELSE /\ pc' = "done"
                      /\ result' = Return(DictSet(DictSet(locals.app_data,
                                        "appRoleAssignments", List(<<>>)),
                                        "oauth2PermissionGrants", List(<<>>)))
                      /\ UNCHANGED locals
    /\ UNCHANGED <<op, args, server>>

\* variant: the operation returns once the role assignments are done, with an
\* empty list of grants that were never requested
AppRoleAssignments_Leave_ReturningEarly(items) ==
    /\ pc' = "done"
    /\ locals' = [locals EXCEPT !.app_role_assignments = items, !.response = None]
    /\ result' = Return(DictSet(DictSet(locals.app_data,
                      "appRoleAssignments", List(items)),
                      "oauth2PermissionGrants", List(<<>>)))

\* leaving the appRoleAssignments try block, by its end or by its except:
\* app_data['appRoleAssignments'] = app_role_assignments
AppRoleAssignments_Leave(items) ==
    /\ pc' = "G93"
    /\ locals' = [locals EXCEPT !.app_role_assignments = items,
                                !.response = None,
                                !.app_data = DictSet(@, "appRoleAssignments", List(items))]
    /\ UNCHANGED result

\* response = await ...app_role_assignments.get()
AppRoleAssignments_Get ==
    /\ RunsGetApplication
    /\ pc = "G67"
    /\ \E reply \in Replies :
         /\ requests' = Append(requests,
                Request("GET", "app_role_assignments", None, locals.sp_id, reply))
         /\ IF reply \in Errors
            THEN AppRoleAssignments_Leave(locals.app_role_assignments)
            ELSE /\ pc' = "G68"
                 /\ locals' = [locals EXCEPT !.response =
                        Respond(reply, server.app_role_assignments, "app_role_assignments", None)]
                 /\ UNCHANGED result
    /\ UNCHANGED <<op, args, server>>

\* one turn of `while response:` that ends with a follow-up request
AppRoleAssignments_NextPage ==
    /\ RunsGetApplication
    /\ pc = "G68"
    /\ Truthy(locals.response)
    /\ Truthy(locals.response.odata_next_link)
    /\ RequestsTo("app_role_assignments") < MaxRequests
    /\ \E reply \in Replies :
         LET url == locals.response.odata_next_link
             items == AppendFormatted(locals.app_role_assignments,
                                      "app_role_assignments", locals.response)
         IN
         /\ requests' = Append(requests,
                Request("GET", "app_role_assignments", url, locals.sp_id, reply))
         /\ IF reply \in Errors
            THEN AppRoleAssignments_Leave(items)
            ELSE /\ locals' = [locals EXCEPT
                        !.app_role_assignments = items,
                        !.response = Respond(reply, server.app_role_assignments,
                                             "app_role_assignments", url)]
                 /\ UNCHANGED <<pc, result>>
    /\ UNCHANGED <<op, args, server>>

\* the loop ends: no response, or a last page without a cursor (break)
AppRoleAssignments_End ==
    /\ RunsGetApplication
    /\ pc = "G68"
    /\ ~(Truthy(locals.response) /\ Truthy(locals.response.odata_next_link))
    /\ AppRoleAssignments_Leave(
          IF Truthy(locals.response)
          THEN AppendFormatted(locals.app_role_assignments,
                               "app_role_assignments", locals.response)
          ELSE locals.app_role_assignments)
    /\ UNCHANGED <<op, args, server, requests>>

\* leaving the oauth2PermissionGrants try block, by its end or by its except:
\* app_data['oauth2PermissionGrants'] = oauth2_permission_grants; return app_data
PermissionGrants_Leave(items) ==
    /\ pc' = "done"
    /\ locals' = [locals EXCEPT !.oauth2_permission_grants = items,
                                !.response = None,
                                !.app_data = DictSet(@, "oauth2PermissionGrants", List(items))]
    /\ result' = Return(DictSet(locals.app_data, "oauth2PermissionGrants", List(items)))

\* response = await ...oauth2_permission_grants.get()
PermissionGrants_Get ==
    /\ RunsGetApplication
    /\ pc = "G93"
    /\ \E reply \in Replies :
         /\ requests' = Append(requests,
                Request("GET", "oauth2_permission_grants", None, locals.sp_id, reply))
         /\ IF reply \in Errors
            THEN PermissionGrants_Leave(locals.oauth2_permission_grants)
            ELSE /\ pc' = "G94"
                 /\ locals' = [locals EXCEPT !.response =
                        Respond(reply, server.oauth2_permission_grants, "oauth2_permission_grants", None)]
                 /\ UNCHANGED result
    /\ UNCHANGED <<op, args, server>>

\* one turn of `while response:` that ends with a follow-up request
PermissionGrants_NextPage ==
    /\ RunsGetApplication
    /\ pc = "G94"
    /\ Truthy(locals.response)
    /\ Truthy(locals.response.odata_next_link)
    /\ RequestsTo("oauth2_permission_grants") < MaxRequests
    /\ \E reply \in Replies :
         LET url == locals.response.odata_next_link
             items == AppendFormatted(locals.oauth2_permission_grants,
                                      "oauth2_permission_grants", locals.response)
         IN
         /\ requests' = Append(requests,
                Request("GET", "oauth2_permission_grants", url, locals.sp_id, reply))
         /\ IF reply \in Errors
            THEN PermissionGrants_Leave(items)
            ELSE /\ locals' = [locals EXCEPT
                        !.oauth2_permission_grants = items,
                        !.response = Respond(reply, server.oauth2_permission_grants,
                                             "oauth2_permission_grants", url)]
                 /\ UNCHANGED <<pc, result>>
    /\ UNCHANGED <<op, args, server>>

\* the loop ends: no response, or a last page without a cursor (break)
PermissionGrants_End ==
    /\ RunsGetApplication
    /\ pc = "G94"
    /\ ~(Truthy(locals.response) /\ Truthy(locals.response.odata_next_link))
    /\ PermissionGrants_Leave(
          IF Truthy(locals.response)
          THEN AppendFormatted(locals.oauth2_permission_grants,
                               "oauth2_permission_grants", locals.response)
          ELSE locals.oauth2_permission_grants)
    /\ UNCHANGED <<op, args, server, requests>>

(***************************************************************************)
(* create_application, update_application, delete_application              *)
(***************************************************************************)
WriteKeys ==
    {"displayName", "signInAudience", "tags", "identifierUris", "web", "api",
     "requiredResourceAccess", "notAllowed", "id"}

\* the value a caller's mapping holds under a key
WriteValue(key) ==
    CASE key = "displayName" -> Str("x")
      [] key = "signInAudience" -> Str("AzureADMultipleOrgs")
      [] key = "tags" -> List(<<Str("t1")>>)
      [] key = "identifierUris" -> List(<<Str("api://x")>>)
      [] key = "web" -> Dict([redirectUris |-> List(<<Str("https://x")>>)])
      [] key = "api" -> Dict([requestedAccessTokenVersion |-> PyInt(2)])
      [] key = "requiredResourceAccess" -> List(<<>>)
      [] key = "notAllowed" -> Str("y")
      [] OTHER -> Str("forged")

\* the mappings a caller may pass as app_data
WriteInputs == { [k \in S |-> WriteValue(k)] : S \in SUBSET WriteKeys }

\* if key in app_data: app.<attr> = app_data[key]
SetIfPresent(app, app_data, key, attr) ==
    IF key \in DOMAIN app_data THEN (attr :> app_data[key]) @@ app ELSE app

\* variant: every key of the mapping is copied onto the object
BuildApplication_CopyingEveryKey(app_data) ==
    LET attr(k) ==
            CASE k = "displayName" -> "display_name"
              [] k = "signInAudience" -> "sign_in_audience"
              [] k = "identifierUris" -> "identifier_uris"
              [] k = "requiredResourceAccess" -> "required_resource_access"
              [] k = "notAllowed" -> "not_allowed"
              [] OTHER -> k
    IN [a \in { attr(k) : k \in DOMAIN app_data } |->
            app_data[CHOOSE k \in DOMAIN app_data : attr(k) = a]]

\* app = Application() followed by the seven conditional assignments: the
\* attributes that were set on the object to be sent
BuildApplication(app_data) ==
    LET a0 == <<>>
        a1 == SetIfPresent(a0, app_data, "displayName", "display_name")
        a2 == SetIfPresent(a1, app_data, "signInAudience", "sign_in_audience")
        a3 == SetIfPresent(a2, app_data, "tags", "tags")
        a4 == SetIfPresent(a3, app_data, "identifierUris", "identifier_uris")
        a5 == SetIfPresent(a4, app_data, "web", "web")
        a6 == SetIfPresent(a5, app_data, "api", "api")
        a7 == SetIfPresent(a6, app_data, "requiredResourceAccess", "required_resource_access")
    IN a7

\* an attribute of the object to be sent; None when it was never set
Attr(app, attr) == IF attr \in DOMAIN app THEN app[attr] ELSE None

\* the application object the directory answers a successful post with
CreatedApplication(app) ==
    [t |-> "obj",
     id |-> Str("app-new"),
     app_id |-> Str("client-new"),
     display_name |-> Attr(app, "display_name"),
     created_date_time |-> DateTime(2024, 1, 8, 12, 0, 0),
     sign_in_audience |-> Attr(app, "sign_in_audience"),
     publisher_domain |-> None,
     tags |-> Attr(app, "tags")]

\* a caller invokes create_application(graph_client, app_data)
CreateApplication_Call ==
    /\ op = "idle"
    /\ \E app_data \in WriteInputs :
         args' = [app_data |-> app_data]
    /\ op' = "create_application"
    /\ pc' = "C141"
    /\ server' = <<>>
    /\ locals' = <<>>
    /\ UNCHANGED <<requests, result>>

\* new_app = await client.applications.post(app); the record of new_app is
\* returned, and no object is a failure of its own
CreateApplication_Post ==
    /\ op = "create_application"
    /\ pc = "C141"
    /\ \E reply \in Replies :
         LET app == BuildApplication(args.app_data) IN
         /\ requests' = Append(requests, Request("POST", "applications", None, app, reply))
         /\ locals' = [app |-> app]
         /\ pc' = "done"
         /\ result' = IF reply \in Errors THEN Raise(reply)
                      ELSE IF reply = "ok"
                      THEN Return(FormatApplication(CreatedApplication(app)))
                      ELSE Raise("Failed to create application")
    /\ UNCHANGED <<op, args, server>>

\* a caller invokes update_application(graph_client, app_id, app_data); the
\* inputs are every mapping with one fixed directory, and every directory with
\* the mappings {} and {displayName}
UpdateApplication_Call ==
    /\ op = "idle"
    /\ \E k \in AppIds, app_data \in WriteInputs,
          roles \in SubChains, grants \in SubChains, sp_id \in SpIds :
         /\ \/ DOMAIN app_data \subseteq {"displayName"}
            \/ /\ roles = [sizes |-> <<2>>, endless |-> FALSE]
               /\ grants = [sizes |-> <<0>>, endless |-> FALSE]
               /\ k = 1
         /\ server' = [app_role_assignments |-> roles,
                       oauth2_permission_grants |-> grants,
                       sp_id |-> sp_id]
         /\ args' = [app_id |-> k, app_data |-> app_data]
    /\ op' = "update_application"
    /\ pc' = "U177"
    /\ locals' = <<>>
    /\ UNCHANGED <<requests, result>>

\* await client.applications.by_application_id(app_id).patch(app); then the
\* body of get_application_by_id runs
UpdateApplication_Patch ==
    /\ op = "update_application"
    /\ pc = "U177"
    /\ \E reply \in Replies :
         /\ requests' = Append(requests,
                Request("PATCH", "application", None,
                        BuildApplication(args.app_data), reply))
         /\ IF reply \in Errors
            THEN /\ pc' = "done"
                 /\ result' = Raise(reply)
            ELSE /\ pc' = "G48"
                 /\ UNCHANGED result
    /\ UNCHANGED <<op, args, server, locals>>

\* a caller invokes delete_application(graph_client, app_id)
DeleteApplication_Call ==
    /\ op = "idle"
    /\ \E k \in AppIds :
         args' = [app_id |-> k]
    /\ op' = "delete_application"
    /\ pc' = "D188"
    /\ server' = <<>>
    /\ locals' = <<>>
    /\ UNCHANGED <<requests, result>>

\* await client.applications.by_application_id(app_id).delete(); return True
DeleteApplication_Delete ==
    /\ op = "delete_application"
    /\ pc = "D188"
    /\ \E reply \in Replies :
         /\ requests' = Append(requests,
                Request("DELETE", "application", None, args.app_id, reply))
         /\ pc' = "done"
         /\ result' = IF reply \in Errors THEN Raise(reply) ELSE Return(Bool(TRUE))
    /\ UNCHANGED <<op, args, server, locals>>

(***************************************************************************)
(* get_user_audit_logs                                                     *)
(***************************************************************************)
\* a caller invokes get_user_audit_logs(graph_client, user_id, days)
AuditLogs_Call ==
    /\ op = "idle"
    /\ \E chain \in Chains, user_id \in UserIds, days \in AuditDays, now \in Clock :
         /\ server' = [directory_audits |-> chain]
         /\ args' = [user_id |-> user_id, days |-> days]
         /\ locals' = [request_configuration |->
                            AuditRequestConfiguration(user_id, days, now),
                        response |-> None, logs |-> <<>>]
    /\ op' = "get_user_audit_logs"
    /\ pc' = "A30"
    /\ UNCHANGED <<requests, result>>

\* response = await client.audit_logs.directory_audits.get(...); the first extend
AuditLogs_Get ==
    /\ op = "get_user_audit_logs"
    /\ pc = "A30"
    /\ \E reply \in Replies :
         /\ requests' = Append(requests,
                Request("GET", "directory_audits", None,
                        locals.request_configuration, reply))
         /\ IF reply \in Errors
            THEN /\ pc' = "done"
                 /\ result' = Raise(reply)
                 /\ UNCHANGED locals
            ELSE LET response == Respond(reply, server.directory_audits, "directory_audits", None) IN
                 /\ pc' = "A34"
                 /\ locals' = [locals EXCEPT !.response = response,
                                             !.logs = Extend(locals.logs, response)]
                 /\ UNCHANGED result
    /\ UNCHANGED <<op, args, server>>

\* variant: the loop also stops at a page without entries
AuditLogs_More_StoppingAtEmptyPage ==
    /\ locals.response # None
    /\ Truthy(locals.response.value)
    /\ Truthy(locals.response.odata_next_link)

\* while response is not None and odata_next_link
AuditLogs_More ==
    /\ locals.response # None
    /\ Truthy(locals.response.odata_next_link)

\* one turn of the paging loop: the follow-up request and its extend
AuditLogs_NextPage ==
    /\ op = "get_user_audit_logs"
    /\ pc = "A34"
    /\ AuditLogs_More
    /\ RequestsTo("directory_audits") < MaxRequests
    /\ \E reply \in Replies :
         LET url == locals.response.odata_next_link IN
         /\ requests' = Append(requests,
                Request("GET", "directory_audits", url,
                        locals.request_configuration, reply))
         /\ IF reply \in Errors
            THEN /\ pc' = "done"
                 /\ result' = Raise(reply)
                 /\ UNCHANGED locals
            ELSE LET response == Respond(reply, server.directory_audits, "directory_audits", url) IN
                 /\ locals' = [locals EXCEPT !.response = response,
                                             !.logs = Extend(locals.logs, response)]
                 /\ UNCHANGED <<pc, result>>
    /\ UNCHANGED <<op, args, server>>

\* the loop has ended: format every log and return
AuditLogs_Return ==
    /\ op = "get_user_audit_logs"
    /\ pc = "A34"
    /\ ~AuditLogs_More
    /\ pc' = "done"
    /\ result' = Return(List(FormatAll("directory_audits", locals.logs)))
    /\ UNCHANGED <<op, args, server, locals, requests>>

(***************************************************************************)
(* get_user_sign_in_logs                                                   *)
(***************************************************************************)
\* a caller invokes get_user_sign_in_logs(graph_client, user_id, days)
SignInLogs_Call ==
    /\ op = "idle"
    /\ \E chain \in Chains, shape \in SignInShapes, user_id \in UserIds,
          days \in SignInDays, now \in Clock :
         /\ server' = [sign_ins |-> chain, shape |-> shape]
         /\ args' = [user_id |-> user_id, days |-> days]
         /\ locals' = [request_configuration |->
                            SignInRequestConfiguration(user_id, days, now),
                        sign_ins |-> None]
    /\ op' = "get_user_sign_in_logs"
    /\ pc' = "S60"
    /\ UNCHANGED <<requests, result>>

\* sign_ins = await client.audit_logs.sign_ins.get(...), then the formatting
\* of sign_ins.value and the return
SignInLogs_Get ==
    /\ op = "get_user_sign_in_logs"
    /\ pc = "S60"
    /\ \E reply \in Replies :
         LET sign_ins == Respond(reply, server.sign_ins, "sign_ins", None) IN
         /\ requests' = Append(requests,
                Request("GET", "sign_ins", None,
                        locals.request_configuration, reply))
         /\ pc' = "done"
         /\ IF reply \in Errors
            THEN /\ result' = Raise(reply)
                 /\ UNCHANGED locals
            ELSE /\ locals' = [locals EXCEPT !.sign_ins = sign_ins]
                 /\ result' = Return(List(
                        IF Truthy(sign_ins) /\ Truthy(sign_ins.value)
                        THEN FormatAll("sign_ins", sign_ins.value.v)
                        ELSE <<>>))
    /\ UNCHANGED <<op, args, server>>

(***************************************************************************)
(* The system                                                              *)
(***************************************************************************)
Init ==
    /\ op = "idle"
    /\ pc = "idle"
    /\ args = <<>>
    /\ server = <<>>
    /\ locals = <<>>
    /\ requests = <<>>
    /\ result = Running

GetNext ==
    \/ GetApplication_Call
    \/ GetApplication_Get
    \/ GetApplication_ServicePrincipal
    \/ AppRoleAssignments_Get
    \/ AppRoleAssignments_NextPage
    \/ AppRoleAssignments_End
    \/ PermissionGrants_Get
    \/ PermissionGrants_NextPage
    \/ PermissionGrants_End

WriteNext ==
    \/ CreateApplication_Call
    \/ CreateApplication_Post
    \/ UpdateApplication_Call
    \/ UpdateApplication_Patch
    \/ DeleteApplication_Call
    \/ DeleteApplication_Delete

ListNext ==
    \/ ListApplications_Call
    \/ ListApplications_Get
    \/ ListApplications_NextPage
    \/ ListApplications_Return

AuditNext ==
    \/ AuditLogs_Call
    \/ AuditLogs_Get
    \/ AuditLogs_NextPage
    \/ AuditLogs_Return

SignInNext ==
    \/ SignInLogs_Call
    \/ SignInLogs_Get

Next ==
    \/ ListNext
    \/ GetNext
    \/ WriteNext
    \/ AuditNext
    \/ SignInNext

Spec == Init /\ [][Next]_vars

\* the operations that page through a collection
PagingNext ==
    \/ ListNext
    \/ GetNext
    \/ AuditNext

\* the paging operations, where every remote call of list_applications is
\* answered or fails and its coroutine is then resumed
FairSpec == Init /\ [][PagingNext]_vars /\ WF_vars(ListNext)

(***************************************************************************)
(* Properties                                                              *)
(***************************************************************************)
Done == pc = "done"
Returned == Done /\ result.kind = "return"
Raised == Done /\ result.kind = "raise"

\* every remote call of the operation so far was answered with a page
AllAnswered == \A i \in 1..Len(requests) : requests[i].reply = "ok"

\* the number of entries of a collection, and its entries in server order
Total(chain) == Offset(chain.sizes, Len(chain.sizes) + 1)
AllEntries(chain, kind) == [k \in 1..Total(chain) |-> Entity(kind, k)]

RECURSIVE Flatten(_)
\* the concatenation of a sequence of lists
Flatten(lists) ==
    IF lists = <<>> THEN <<>> ELSE Head(lists) \o Flatten(Tail(lists))

\* the value lists of the pages the transport handed over, in request order
FetchedPages(chain, kind) ==
    LET answered == SelectSeq(requests, LAMBDA r : r.reply = "ok")
    IN [i \in 1..Len(answered) |-> Page(chain, kind, Target(answered[i].url)).value.v]

\* the first n elements of a sequence, all of them when it is shorter
FirstN(seq, n) == [i \in 1..(IF n < Len(seq) THEN n ELSE Len(seq)) |-> seq[i]]

\* C1: list_applications with limit >= 0 returns one record per entry of the
\* concatenation of the fetched pages, in page order, cut to the first limit
\* entries when there are more; on a finite chain whose requests were all
\* answered that is the first limit entries of the whole collection, and the
\* whole collection when limit is not smaller than its size.
C1_ListReturnsConcatenationUpToLimit ==
    (op = "list_applications" /\ Returned /\ args.limit >= 0) =>
        LET fetched == Flatten(FetchedPages(server.applications, "applications"))
            all == AllEntries(server.applications, "applications")
        IN /\ result.value.v = FormatAll("applications", FirstN(fetched, args.limit))
           /\ (~server.applications.endless /\ AllAnswered) =>
                 /\ result.value.v = FormatAll("applications", FirstN(all, args.limit))
                 /\ args.limit < Len(all) => Len(result.value.v) = args.limit
                 /\ args.limit >= Len(all) => Len(result.value.v) = Len(all)

\* a list that took two requests, over-fetched and was trimmed to limit
C1_Witness ==
    /\ op = "list_applications"
    /\ Returned
    /\ ~server.applications.endless
    /\ AllAnswered
    /\ Len(requests) = 2
    /\ args.limit > 0
    /\ Len(locals.applications) > args.limit
    /\ Len(result.value.v) = args.limit

\* the requests of the running operation that the transport failed
FailedRequests == {i \in 1..Len(requests) : requests[i].reply \in Errors}

\* C2 (as claimed): in get_application_by_id with a resolved service principal,
\* a failed request for a sub-collection, on the first page or on a follow-up
\* page, still lets the operation return the application record, and the
\* list under that sub-collection's key is empty.
C2_SubCollectionFailureYieldsEmptyList ==
    (op = "get_application_by_id" /\ Done) =>
        /\ (\E i \in FailedRequests : requests[i].target = "app_role_assignments") =>
              /\ result.kind = "return"
              /\ result.value.v.appRoleAssignments = List(<<>>)
        /\ (\E i \in FailedRequests : requests[i].target = "oauth2_permission_grants") =>
              /\ result.kind = "return"
              /\ result.value.v.oauth2PermissionGrants = List(<<>>)

\* C3 (as claimed): when the application was fetched and the lookup of its
\* service principal fails, get_application_by_id does not raise and returns
\* the application record with both lists empty.
C3_ServicePrincipalFailureYieldsEmptyLists ==
    (op = "get_application_by_id"
        /\ \E i \in FailedRequests : requests[i].target = "get_service_principal_by_app_id") =>
        /\ Returned
        /\ result.value.v.appRoleAssignments = List(<<>>)
        /\ result.value.v.oauth2PermissionGrants = List(<<>>)

\* C4: in list_applications and get_user_audit_logs a failed request, the
\* initial one or a follow-up, ends the operation: it is the last request
\* sent, and the operation raises the very error of that request instead of
\* returning a list.
C4_FailureRaisesSameErrorAndStops ==
    (op \in {"list_applications", "get_user_audit_logs"}) =>
        /\ \A i \in FailedRequests :
              /\ i = Len(requests)
              /\ Done
              /\ result = [kind |-> "raise", error |-> requests[i].reply]
        /\ Returned => FailedRequests = {}

\* a follow-up request failed after entries had been accumulated
C4_Witness ==
    /\ op = "list_applications"
    /\ Raised
    /\ Len(requests) = 2
    /\ requests[2].reply = "E2"
    /\ result.error = "E2"
    /\ locals.applications # <<>>

\* C5 (as claimed): when the first sign-in response carries a cursor,
\* get_user_sign_in_logs follows the chain and returns one record for every
\* entry of every page, in page order.
C5_SignInLogsFollowCursors ==
    (op = "get_user_sign_in_logs" /\ Returned /\ AllAnswered
        /\ ~server.sign_ins.endless /\ Len(server.sign_ins.sizes) > 1) =>
        result.value.v = FormatAll("sign_ins", AllEntries(server.sign_ins, "sign_ins"))

\* C6: on a finite chain of audit pages whose requests are all answered,
\* get_user_audit_logs requests every page once and returns exactly one
\* record per entry of every page, in server order: entry k of the
\* collection is record k of the result; empty pages with a cursor included.
C6_AuditLogsFetchedToExhaustion ==
    (op = "get_user_audit_logs" /\ Done /\ AllAnswered
        /\ ~server.directory_audits.endless) =>
        /\ Returned
        /\ Len(requests) = Len(server.directory_audits.sizes)
        /\ \A i \in 1..Len(requests) : Target(requests[i].url) = i
        /\ result.value.v = FormatAll("directory_audits", AllEntries(server.directory_audits, "directory_audits"))
        /\ Len(result.value.v) = Total(server.directory_audits)
        /\ \A k \in 1..Len(result.value.v) :
              result.value.v[k].v.id = Str("audit-" \o ToString(k))

\* an empty first page with a cursor, followed by a page with entries
C6_Witness ==
    /\ op = "get_user_audit_logs"
    /\ Returned
    /\ AllAnswered
    /\ server.directory_audits = [sizes |-> <<0, 2>>, endless |-> FALSE]
    /\ Len(result.value.v) = 2

RECURSIVE KeyPaths(_)
\* the keys of a dictionary, nested ones as paths
KeyPaths(x) ==
    IF x.t = "dict"
    THEN UNION { {<<k>>} \cup { <<k>> \o q : q \in KeyPaths(x.v[k]) } : k \in DOMAIN x.v }
    ELSE {}

RECURSIVE NoNull(_)
\* no None anywhere in a value
NoNull(x) ==
    CASE x.t = "None" -> FALSE
      [] x.t = "dict" -> \A k \in DOMAIN x.v : NoNull(x.v[k])
      [] x.t = "list" -> \A i \in 1..Len(x.v) : NoNull(x.v[i])
      [] OTHER -> TRUE

\* the record of a sign-in entry that has every optional field
FullSignInRecord ==
    FormatSignIn(SignIn(1, [scalars |-> "full", status |-> "full",
                            device |-> "full", location |-> "full"]))

\* C7 (as claimed): whatever optional fields a sign-in entry lacks, its record
\* has the same key set, top-level and nested, and holds no null.
C7_SignInRecordKeysFixedAndNoNull ==
    (op = "get_user_sign_in_logs" /\ Returned) =>
        \A i \in 1..Len(result.value.v) :
            /\ KeyPaths(result.value.v[i]) = KeyPaths(FullSignInRecord)
            /\ NoNull(result.value.v[i])

Allowlist ==
    {"displayName", "signInAudience", "tags", "identifierUris", "web", "api",
     "requiredResourceAccess"}

\* the attribute of the Application object that carries an allowlisted key
AttributeOf(key) ==
    CASE key = "displayName" -> "display_name"
      [] key = "signInAudience" -> "sign_in_audience"
      [] key = "tags" -> "tags"
      [] key = "identifierUris" -> "identifier_uris"
      [] key = "web" -> "web"
      [] key = "api" -> "api"
      [] key = "requiredResourceAccess" -> "required_resource_access"

\* C8: the object sent by create_application (post) and update_application
\* (patch) has exactly the attributes of the allowlisted keys present in the
\* input mapping, each with the mapping's value; no other key of the mapping
\* shows in the request.
C8_WriteRequestHoldsExactlyAllowlistedKeys ==
    (op \in {"create_application", "update_application"}) =>
        \A i \in 1..Len(requests) :
            requests[i].verb \in {"POST", "PATCH"} =>
                LET sent == requests[i].body
                    keys == DOMAIN args.app_data \cap Allowlist
                IN /\ DOMAIN sent = { AttributeOf(k) : k \in keys }
                   /\ \A k \in keys : sent[AttributeOf(k)] = args.app_data[k]
                   /\ requests[i].verb = (IF op = "create_application" THEN "POST" ELSE "PATCH")

\* a patch was sent for a mapping with allowlisted keys and keys to ignore
C8_Witness ==
    /\ op = "update_application"
    /\ Len(requests) >= 1
    /\ requests[1].verb = "PATCH"
    /\ DOMAIN args.app_data = {"displayName", "web", "notAllowed", "id"}
    /\ DOMAIN requests[1].body = {"display_name", "web"}

\* C9: when the application get-by-id is answered without an object,
\* get_application_by_id returns None, raises nothing, and sends neither a
\* service-principal lookup nor a sub-collection request.
C9_AbsentApplicationReturnsNone ==
    (op = "get_application_by_id" /\ Len(requests) >= 1 /\ requests[1].reply = "none") =>
        /\ Returned
        /\ result.value = None
        /\ Len(requests) = 1
        /\ requests[1].target = "application"

\* the get-by-id request was answered without an object
C9_Witness ==
    /\ op = "get_application_by_id"
    /\ Returned
    /\ requests[1].reply = "none"
    /\ result.value = None

\* the entries handed over so far, counted from the pages of the answered requests
FetchedCount == Len(Flatten(FetchedPages(server.applications, "applications")))

\* C10: list_applications sends its requests one at a time; a follow-up
\* request is sent only when the latest response carries a cursor and fewer
\* than limit entries were accumulated, and it targets that cursor; after a
\* response without a cursor, or once limit entries are accumulated, no
\* request follows.
C10_FollowUpOnlyOnCursorBelowLimit ==
    [][(op = "list_applications" /\ requests' # requests) =>
          /\ Len(requests') = Len(requests) + 1
          /\ SubSeq(requests', 1, Len(requests)) = requests
          /\ LET new == requests'[Len(requests')] IN
             IF requests = <<>>
             THEN new.url = None
             ELSE LET last == requests[Len(requests)]
                      latest == Page(server.applications, "applications", Target(last.url))
                  IN /\ last.reply = "ok"
                     /\ latest.odata_next_link # None
                     /\ new.url = latest.odata_next_link
                     /\ FetchedCount < args.limit]_vars

\* the paging stopped at limit although the latest response carried a cursor
C10_Witness ==
    /\ op = "list_applications"
    /\ Returned
    /\ Len(requests) = 2
    /\ requests[2].reply = "ok"
    /\ locals.response.odata_next_link # None
    /\ Len(locals.applications) >= args.limit

\* the positions in the request log of the requests sent to a collection
RequestsOf(target) == {i \in 1..Len(requests) : requests[i].target = target}

\* the entries of the pages a sub-collection handed over, in request order
FetchedFrom(target) ==
    LET answered == SelectSeq(requests,
                        LAMBDA r : r.target = target /\ r.reply = "ok")
    IN Flatten([i \in 1..Len(answered) |->
                   Page(server[target], target, Target(answered[i].url)).value.v])

\* the service principal of the application was resolved
Resolved ==
    \E i \in 1..Len(requests) :
        /\ requests[i].target = "get_service_principal_by_app_id"
        /\ requests[i].reply = "ok"

\* C11: in get_application_by_id with a resolved service principal, every
\* request for the permission grants comes after every request for the role
\* assignments, and the grants are requested whether the role assignments
\* were fetched or failed; when one sub-collection fails, the key of the other
\* holds one record per entry of every page of its own sub-collection; every
\* record returned holds both keys.
C11_SubCollectionFetchesAreIndependent ==
    RunsGetApplication =>
        LET roles == "app_role_assignments"
            grants == "oauth2_permission_grants"
            failed(t) == \E i \in FailedRequests : requests[i].target = t
            answered(t) == /\ ~server[t].endless
                           /\ \A i \in RequestsOf(t) : requests[i].reply = "ok"
        IN /\ \A i \in RequestsOf(roles), j \in RequestsOf(grants) : i < j
           /\ (Resolved /\ Done) =>
                 /\ Returned
                 /\ RequestsOf(roles) # {}
                 /\ RequestsOf(grants) # {}
           /\ (Returned /\ result.value # None) =>
                 {"appRoleAssignments", "oauth2PermissionGrants"}
                     \subseteq DOMAIN result.value.v
           /\ (Returned /\ Resolved) =>
                 /\ result.value.v.appRoleAssignments =
                        List(FormatAll(roles, FetchedFrom(roles)))
                 /\ result.value.v.oauth2PermissionGrants =
                        List(FormatAll(grants, FetchedFrom(grants)))
                 /\ (failed(roles) /\ answered(grants)) =>
                        result.value.v.oauth2PermissionGrants =
                            List(FormatAll(grants, AllEntries(server[grants], grants)))
                 /\ (failed(grants) /\ answered(roles)) =>
                        result.value.v.appRoleAssignments =
                            List(FormatAll(roles, AllEntries(server[roles], roles)))

\* the role assignments failed on their first request, and the grants were
\* then fetched over two pages
C11_Witness ==
    /\ op = "get_application_by_id"
    /\ Returned
    /\ Resolved
    /\ \E i \in FailedRequests : requests[i].target = "app_role_assignments"
    /\ result.value.v.appRoleAssignments = List(<<>>)
    /\ server.oauth2_permission_grants = [sizes |-> <<2, 2>>, endless |-> FALSE]
    /\ Len(result.value.v.oauth2PermissionGrants.v) = 4

\* the grants failed on a follow-up request after the role assignments had
\* been fetched over two pages
C11_WitnessGrantsFailed ==
    /\ op = "get_application_by_id"
    /\ Returned
    /\ \E i \in FailedRequests : requests[i].target = "oauth2_permission_grants"
    /\ server.app_role_assignments = [sizes |-> <<2, 2>>, endless |-> FALSE]
    /\ Len(result.value.v.appRoleAssignments.v) = 4
    /\ Len(result.value.v.oauth2PermissionGrants.v) = 2

\* the keys of the record of an application
ApplicationKeys ==
    {"id", "appId", "displayName", "createdDateTime", "signInAudience",
     "publisherDomain", "tags"}

\* C12 (as claimed): update_application sends the patch before any read; a
\* failed patch is the only request and its error is raised; after a patch
\* that did not fail, whenever the operation returns, it returns the record of
\* the application as read back, never None.
C12_UpdatePatchesThenReturnsRecord ==
    (op = "update_application" /\ requests # <<>>) =>
        /\ requests[1].verb = "PATCH"
        /\ \A i \in 2..Len(requests) : requests[i].verb # "PATCH"
        /\ requests[1].reply \in Errors =>
              /\ Len(requests) = 1
              /\ Raised
              /\ result.error = requests[1].reply
        /\ (requests[1].reply \notin Errors /\ Returned) =>
              /\ result.value # None
              /\ ApplicationKeys \subseteq DOMAIN result.value.v
              /\ \A k \in ApplicationKeys :
                    result.value.v[k] = FormatApplication(Application(args.app_id)).v[k]

\* every page of a collection holds at least one entry
EveryPageHoldsAnEntry(chain) == \A i \in 1..Len(chain.sizes) : chain.sizes[i] >= 1

\* the cursor of the response to a request; None when no object came back
CursorAfter(request) ==
    IF request.reply = "ok"
    THEN Page(server[request.target], request.target, Target(request.url)).odata_next_link
    ELSE None

\* the last request sent to a collection
LastRequestTo(target) ==
    requests[CHOOSE i \in RequestsOf(target) : \A j \in RequestsOf(target) : j <= i]

\* a paging loop has ended without a failed request only on a response
\* without a cursor
EndedOnLastPage(target) ==
    \/ RequestsOf(target) = {}
    \/ LastRequestTo(target).reply \in Errors
    \/ CursorAfter(LastRequestTo(target)) = None

\* C13: when every page of the applications holds at least one entry,
\* list_applications sends at most max(1, limit) requests, also on a chain
\* of pages whose cursors never end, and then ends (it returns unless a
\* request failed); the loops without a limit (get_user_audit_logs and the two
\* sub-collection loops of get_application_by_id) end without a failed request
\* only after a response without a cursor, so they do not end on an endless
\* chain whose requests are all answered with a page.
C13_ListTerminatesUnderEndlessCursors ==
    /\ []((op = "list_applications" /\ EveryPageHoldsAnEntry(server.applications)) =>
            /\ Len(requests) <= (IF args.limit > 1 THEN args.limit ELSE 1)
            /\ (Done /\ FailedRequests = {}) => Returned)
    /\ (op = "list_applications" /\ EveryPageHoldsAnEntry(server.applications)) ~> Done
    /\ []((op = "get_user_audit_logs" /\ Done) =>
            /\ EndedOnLastPage("directory_audits")
            /\ AllAnswered => ~server.directory_audits.endless)
    /\ []((RunsGetApplication /\ pc \in {"G93", "G94"}) =>
            EndedOnLastPage("app_role_assignments"))
    /\ []((RunsGetApplication /\ Returned /\ Resolved) =>
            /\ EndedOnLastPage("app_role_assignments")
            /\ EndedOnLastPage("oauth2_permission_grants")
            /\ \A t \in {"app_role_assignments", "oauth2_permission_grants"} :
                  (\A i \in RequestsOf(t) : requests[i].reply = "ok") => ~server[t].endless)

\* list_applications returned after limit requests on an endless chain of
\* pages of one entry, the latest response still carrying a cursor
C13_Witness ==
    /\ op = "list_applications"
    /\ Returned
    /\ server.applications.endless
    /\ EveryPageHoldsAnEntry(server.applications)
    /\ AllAnswered
    /\ args.limit = MaxLimit
    /\ Len(requests) = args.limit
    /\ locals.response.odata_next_link # None

====
